---- MODULE Spec2Model ----
(***************************************************************************)
(* Extraction layer of the near-Earth-object explorer: the entity model    *)
(* (models.py: NearEarthObject, CloseApproach) and the two extractors      *)
(* (extract.py: load_neos, load_approaches).                               *)
(*                                                                         *)
(* Python values are tagged records, so that None, "", 0.0, NaN and False  *)
(* stay distinct values with Python's truthiness.  A finite float is held  *)
(* in thousandths (2.3 is milli 2300).  A dict is a function whose DOMAIN  *)
(* is its key set, so a missing key is a KeyError and not a None.          *)
(***************************************************************************)
EXTENDS Integers, Sequences, FiniteSets, TLC

VARIABLES
    call,        \* the entry point that was called, "" before any call
    pc,          \* position: "idle", "loop", "returned" or "raised"
    exc,         \* the exception that escaped to the caller ("" when none)
    fieldnames,  \* load_neos: the header columns of the CSV (DictReader.fieldnames)
    rows,        \* load_neos: the rows the reader has yielded so far
    neos,        \* load_neos: the list `neos`
    document,    \* load_approaches: the document json.load returned (line 57)
    reader,      \* load_approaches: the list of row dicts (line 58)
    done,        \* load_approaches: how many elements of `reader` the loop has consumed
    approaches,  \* load_approaches: the list `approaches`
    printed,     \* the diagnostics written by print(e): <<row index, exception>>
    obj,         \* the object a direct constructor call returned
    helpers      \* which cd_to_datetime the helpers module provides

vars == <<call, pc, exc, fieldnames, rows, neos, document, reader, done, approaches, printed, obj, helpers>>

\* The largest number of data rows a source file holds.
MaxRows == 2

-----------------------------------------------------------------------------
(* Python values *)

None == [type |-> "NoneType"]
Str(s) == [type |-> "str", val |-> s]
Bool(b) == [type |-> "bool", val |-> b]
Float(m) == [type |-> "float", nan |-> FALSE, milli |-> m]
NaN == [type |-> "float", nan |-> TRUE, milli |-> 0]

\* bool(v): the truth value Python gives `if v` / `not v` / `v or w`.
Truthy(v) ==
    CASE v.type = "NoneType" -> FALSE
      [] v.type = "str" -> v.val # ""
      [] v.type = "bool" -> v.val
      [] v.type = "float" -> v.nan \/ v.milli # 0
      [] OTHER -> TRUE

\* The decimal literals that occur in the sources, with the float each denotes.
FloatLiterals ==
    ("0" :> Float(0)) @@ ("0.0" :> Float(0)) @@ ("2.3" :> Float(2300)) @@
    ("16.84" :> Float(16840)) @@ ("0.15" :> Float(150)) @@ ("5.3" :> Float(5300))

\* float(v): [exc |-> "" , val |-> the float] or [exc |-> the exception raised].
float(v) ==
    CASE v.type = "float" -> [exc |-> "", val |-> v]
      [] v.type = "str" /\ v.val \in DOMAIN FloatLiterals ->
            [exc |-> "", val |-> FloatLiterals[v.val]]
      [] v.type = "str" -> [exc |-> "ValueError", val |-> None]
      [] OTHER -> [exc |-> "TypeError", val |-> None]

\* "{x}".format(x = v): str(v).
format(v) ==
    CASE v.type = "str" -> v.val
      [] v.type = "NoneType" -> "None"
      [] v.type = "bool" -> IF v.val THEN "True" ELSE "False"
      [] OTHER -> "?"

\* info.get(key, default) on a keyword-argument dict.
Get(info, key, default) == IF key \in DOMAIN info THEN info[key] ELSE default

-----------------------------------------------------------------------------
(* models.py *)

\* NearEarthObject.__init__(**info); it raises nothing.
NearEarthObject(info) ==
    LET diameter == Get(info, "diameter", None) IN
    [ designation |-> Get(info, "designation", None),
      name        |-> Get(info, "name", None),
      diameter    |-> IF ~Truthy(diameter) THEN NaN ELSE diameter,
      hazardous   |-> Get(info, "hazardous", None),
      approaches  |-> <<>> ]

\* NearEarthObject.serialize()
serialize(neo) ==
    [ name                  |-> IF neo.name = None THEN "" ELSE format(neo.name),
      designation           |-> format(neo.designation),
      diameter_km           |-> neo.diameter,
      potentially_hazardous |-> neo.hazardous ]

\* helpers.cd_to_datetime: the calendar dates that occur in the sources, with
\* the instant each denotes (format YYYY-bbb-DD hh:mm).
DateLiterals ==
    ("1900-Jan-01 12:00" :>
        [type |-> "datetime", year |-> 1900, month |-> 1, day |-> 1,
         hour |-> 12, minute |-> 0]) @@
    ("2020-Dec-31 23:59" :>
        [type |-> "datetime", year |-> 2020, month |-> 12, day |-> 31,
         hour |-> 23, minute |-> 59])

\* The instant that stands for "no time given".
Unset == [type |-> "datetime", year |-> 0, month |-> 0, day |-> 0, hour |-> 0, minute |-> 0]

\* helpers.py is not part of the sources at hand.  Two readings of its
\* cd_to_datetime are kept, and every behaviour runs under one of them:
\*   "spec"     an absent or empty string gives the unset instant, a string
\*              of the recognised pattern its instant, any other string a
\*              FormatError;
\*   "strptime" datetime.strptime(v, "%Y-%b-%d %H:%M"): a string of the
\*              pattern gives its instant, any other string (the empty one
\*              too) a ValueError, and None a TypeError.
HelperVariants == {"spec", "strptime"}

cd_to_datetime_spec(v) ==
    CASE ~Truthy(v) -> [exc |-> "", val |-> Unset]
      [] v.type = "str" /\ v.val \in DOMAIN DateLiterals ->
            [exc |-> "", val |-> DateLiterals[v.val]]
      [] OTHER -> [exc |-> "FormatError", val |-> Unset]

cd_to_datetime_strptime(v) ==
    CASE v.type = "str" /\ v.val \in DOMAIN DateLiterals ->
            [exc |-> "", val |-> DateLiterals[v.val]]
      [] v.type = "str" -> [exc |-> "ValueError", val |-> Unset]
      [] OTHER -> [exc |-> "TypeError", val |-> Unset]

\* helpers.cd_to_datetime(v), as the helpers module in use defines it.
cd_to_datetime(v) ==
    IF helpers = "strptime" THEN cd_to_datetime_strptime(v) ELSE cd_to_datetime_spec(v)

\* CloseApproach.__init__(**info): [exc |-> "", val |-> the object], or the
\* exception cd_to_datetime raised.
CloseApproach(info) ==
    LET time == cd_to_datetime(Get(info, "time", None)) IN
    IF time.exc # ""
    THEN [exc |-> time.exc, val |-> None]
    ELSE [exc |-> "",
          val |-> [ _designation |-> Get(info, "designation", None),
                    time         |-> time.val,
                    distance     |-> Get(info, "distance", NaN),
                    velocity     |-> Get(info, "velocity", NaN),
                    neo          |-> Get(info, "neo", None) ]]

-----------------------------------------------------------------------------
(* extract.py: load_neos *)

\* What one pass of a loop body does: it lets `exc` escape ("raise"), prints
\* `exc` and goes on ("skip"), or appends `val` ("append").
Raise(e) == [kind |-> "raise", exc |-> e, val |-> None]
Skip(e) == [kind |-> "skip", exc |-> e, val |-> None]
Appended(o) == [kind |-> "append", exc |-> "", val |-> o]

\* Line 32: n["name"] = n["name"] or None
norm_name(v) == IF Truthy(v) THEN v ELSE None

\* Line 33: n["diameter"] = float(n["diameter"]) if n["diameter"] else None
norm_diameter(v) == IF Truthy(v) THEN float(v) ELSE [exc |-> "", val |-> None]

\* Line 34: n["pha"] = False if n["pha"] in ["", "N"] else True
norm_pha(v) == IF v \in {Str(""), Str("N")} THEN Bool(FALSE) ELSE Bool(TRUE)

\* Lines 35-45: the try statement, on the normalised row.
neo_try(n, name, diameter, pha) ==
    IF "pdes" \notin DOMAIN n
    THEN Skip("KeyError")
    ELSE Appended(NearEarthObject(
             [designation |-> n["pdes"], name |-> name,
              diameter |-> diameter, hazardous |-> pha]))

\* Lines 32-45: the body of the loop for the row dict n.
load_neos_body(n) ==
    IF "name" \notin DOMAIN n THEN Raise("KeyError")
    ELSE IF "diameter" \notin DOMAIN n THEN Raise("KeyError")
    ELSE LET diameter == norm_diameter(n["diameter"]) IN
         IF diameter.exc # "" THEN Raise(diameter.exc)
         ELSE IF "pha" \notin DOMAIN n THEN Raise("KeyError")
         ELSE neo_try(n, norm_name(n["name"]), diameter.val, norm_pha(n["pha"]))

-----------------------------------------------------------------------------
(* extract.py: load_approaches *)

\* dict(zip(fields, data)): the keys are the first min(len) names of `fields`.
zip_dict(fields, data) ==
    LET n == IF Len(fields) < Len(data) THEN Len(fields) ELSE Len(data)
        key_index(k) == CHOOSE i \in 1..n : fields[i] = k /\ \A j \in (i+1)..n : fields[j] # k
    IN  [k \in {fields[i] : i \in 1..n} |-> data[key_index(k)]]

\* load_approaches_body with a slip: a dist or v_rel that float() rejects is
\* stored as NaN and the row kept.
load_approaches_body_nan(line) ==
    IF {"des", "cd", "dist", "v_rel"} \subseteq DOMAIN line
    THEN LET distance == float(line["dist"])
             velocity == float(line["v_rel"])
             approach == CloseApproach(
                 [designation |-> line["des"], time |-> line["cd"],
                  distance |-> IF distance.exc # "" THEN NaN ELSE distance.val,
                  velocity |-> IF velocity.exc # "" THEN NaN ELSE velocity.val])
         IN  IF approach.exc # "" THEN Skip(approach.exc) ELSE Appended(approach.val)
    ELSE Skip("KeyError")

\* Lines 61-71: the try statement for the row dict `line`.  The keyword
\* arguments are evaluated left to right, then the constructor runs; whatever
\* is raised is caught.
load_approaches_body(line) ==
    IF "des" \notin DOMAIN line THEN Skip("KeyError")
    ELSE IF "cd" \notin DOMAIN line THEN Skip("KeyError")
    ELSE IF "dist" \notin DOMAIN line THEN Skip("KeyError")
    ELSE LET distance == float(line["dist"]) IN
         IF distance.exc # "" THEN Skip(distance.exc)
         ELSE IF "v_rel" \notin DOMAIN line THEN Skip("KeyError")
         ELSE LET velocity == float(line["v_rel"]) IN
              IF velocity.exc # "" THEN Skip(velocity.exc)
              ELSE LET approach == CloseApproach(
                           [designation |-> line["des"], time |-> line["cd"],
                            distance |-> distance.val, velocity |-> velocity.val])
                   IN  IF approach.exc # "" THEN Skip(approach.exc)
                       ELSE Appended(approach.val)

\* Lines 57-58: json.load, then the comprehension that zips every row.  `doc`
\* is the loaded document; reader["data"] is evaluated once, reader["fields"]
\* once per row.
read_document(doc) ==
    IF "data" \notin DOMAIN doc THEN [exc |-> "KeyError", val |-> <<>>]
    ELSE IF doc["data"] # <<>> /\ "fields" \notin DOMAIN doc
         THEN [exc |-> "KeyError", val |-> <<>>]
         ELSE [exc |-> "",
               val |-> [i \in 1..Len(doc["data"]) |-> zip_dict(doc["fields"], doc["data"][i])]]

-----------------------------------------------------------------------------
(* The inputs *)

\* The dict d restricted to the keys K.
Restrict(d, K) == [k \in K \cap DOMAIN d |-> d[k]]

\* The records of rs that differ from base in at most two fields.
Near(rs, base) == {r \in rs : Cardinality({k \in DOMAIN base : r[k] # base[k]}) <= 2}

\* The columns load_neos reads.
NeoColumns == {"pdes", "name", "diameter", "pha"}

\* The field values of a CSV row.  None is what DictReader gives a column the
\* row is too short to reach (restval).
NeoBase == [pdes |-> Str("433"), name |-> Str("Eros"), diameter |-> Str("2.3"), pha |-> Str("N")]
NeoSourceRows ==
    Near([ pdes     : {None, Str(""), Str("433")},
           name     : {None, Str(""), Str("Eros")},
           diameter : {None, Str(""), Str("0"), Str("2.3"), Str("abc")},
           pha      : {None, Str(""), Str("N"), Str("Y")} ], NeoBase)

\* The row dicts a DictReader with the header columns `header` can yield.
NeoRows(header) == {Restrict(r, header) : r \in NeoSourceRows}

\* The field values of a close-approach row; None is a JSON null.
ApproachBase ==
    [des |-> Str("433"), cd |-> Str("1900-Jan-01 12:00"), dist |-> Str("0.15"), v_rel |-> Str("5.3")]
ApproachSourceRows ==
    Near([ des   : {None, Str(""), Str("433")},
           cd    : {Str(""), Str("yesterday"), Str("1900-Jan-01 12:00")},
           dist  : {None, Str("n/a"), Str("0.15")},
           v_rel : {None, Str("n/a"), Str("5.3")} ], ApproachBase)

\* The `fields` manifests: the four columns, and one that lacks `des`.
ApproachFields == {<<"des", "cd", "dist", "v_rel">>, <<"cd", "dist", "v_rel">>}

\* The positional rows of a `data` array aligned to `fields`: every source row
\* in full, and the base row cut short.
ApproachData(fields) ==
    {[i \in 1..Len(fields) |-> r[fields[i]]] : r \in ApproachSourceRows}
    \cup {[i \in 1..k |-> ApproachBase[fields[i]]] : k \in 0..(Len(fields) - 1)}

\* The JSON document with the manifest f and the rows d, cut down to the
\* top-level keys `keys`.
Document(f, d, keys) == Restrict([fields |-> f, data |-> d], keys)

\* The keyword arguments of a direct constructor call.
SomeNeo == NearEarthObject([designation |-> Str("433")])
ApproachInfos ==
    { Restrict(i, keys) :
        i \in [ designation : {Str("433")},
                time        : {Str("1900-Jan-01 12:00"), Str("yesterday")},
                distance    : {Float(150)},
                velocity    : {Float(5300)},
                neo         : {None, SomeNeo} ],
        keys \in SUBSET {"designation", "time", "distance", "velocity", "neo"} }
NeoInfos ==
    { Restrict(i, keys) :
        i \in [ designation : {Str("433")},
                name        : {None, Str("Eros")},
                diameter    : {None, Float(0), Float(2300)},
                hazardous   : {Bool(FALSE), Bool(TRUE)},
                approaches  : {<<Str("an approach")>>} ],
        keys \in SUBSET {"designation", "name", "diameter", "hazardous", "approaches"} }

-----------------------------------------------------------------------------
(* The state machine *)

Init ==
    /\ call = ""
    /\ pc = "idle"
    /\ exc = ""
    /\ fieldnames = {}
    /\ rows = <<>>
    /\ neos = <<>>
    /\ document = <<>>
    /\ reader = <<>>
    /\ done = 0
    /\ approaches = <<>>
    /\ printed = <<>>
    /\ obj = None
    /\ helpers \in HelperVariants

\* append with a slip: an element equal to one already in the list is dropped.
append_unique(list, x) ==
    IF \E i \in DOMAIN list : list[i] = x THEN list ELSE Append(list, x)

\* list.append(x) (lines 45 and 71).
append(list, x) == Append(list, x)

\* load_neos, lines 28-30: open the file, read the header, neos = [].
load_neos_open ==
    /\ pc = "idle"
    /\ call' = "load_neos"
    /\ \E exists \in BOOLEAN, header \in SUBSET NeoColumns :
          IF exists
          THEN pc' = "loop" /\ exc' = "" /\ fieldnames' = header
          ELSE pc' = "raised" /\ exc' = "FileNotFoundError" /\ UNCHANGED fieldnames
    /\ UNCHANGED <<rows, neos, document, reader, done, approaches, printed, obj, helpers>>

\* load_neos, lines 31-45: the reader yields one more row and the body runs.
load_neos_row ==
    /\ call = "load_neos" /\ pc = "loop"
    /\ Len(rows) < MaxRows
    /\ \E n \in NeoRows(fieldnames) :
          LET r == load_neos_body(n) IN
          /\ rows' = Append(rows, n)
          /\ pc' = IF r.kind = "raise" THEN "raised" ELSE "loop"
          /\ exc' = IF r.kind = "raise" THEN r.exc ELSE ""
          /\ printed' = IF r.kind = "skip"
                        THEN Append(printed, <<Len(rows) + 1, r.exc>>) ELSE printed
          /\ neos' = IF r.kind = "append" THEN append(neos, r.val) ELSE neos
    /\ UNCHANGED <<call, fieldnames, document, reader, done, approaches, obj, helpers>>

\* load_neos, line 46: the reader is exhausted, return neos.
load_neos_return ==
    /\ call = "load_neos" /\ pc = "loop"
    /\ pc' = "returned"
    /\ UNCHANGED <<call, exc, fieldnames, rows, neos, document, reader, done, approaches, printed, obj, helpers>>

\* load_approaches, lines 56-59: open, json.load, zip the rows, approaches = [].
load_approaches_open ==
    /\ pc = "idle"
    /\ call' = "load_approaches"
    /\ \E exists \in BOOLEAN, f \in ApproachFields, k \in 0..MaxRows,
          keys \in SUBSET {"fields", "data"} :
       \E d \in [1..k -> ApproachData(f)] :
          LET doc == Document(f, d, keys)
              r == read_document(doc)
          IN
          IF ~exists
          THEN pc' = "raised" /\ exc' = "FileNotFoundError" /\ UNCHANGED <<document, reader>>
          ELSE /\ document' = doc
               /\ IF r.exc # ""
                  THEN pc' = "raised" /\ exc' = r.exc /\ UNCHANGED reader
                  ELSE pc' = "loop" /\ exc' = "" /\ reader' = r.val
    /\ UNCHANGED <<fieldnames, rows, neos, done, approaches, printed, obj, helpers>>

\* load_approaches, lines 60-71: the body for the next element of reader.
load_approaches_row ==
    /\ call = "load_approaches" /\ pc = "loop"
    /\ done < Len(reader)
    /\ LET r == load_approaches_body(reader[done + 1]) IN
          /\ done' = done + 1
          /\ printed' = IF r.kind = "skip"
                        THEN Append(printed, <<done + 1, r.exc>>) ELSE printed
          /\ approaches' = IF r.kind = "append" THEN append(approaches, r.val)
                           ELSE approaches
    /\ UNCHANGED <<call, pc, exc, fieldnames, rows, neos, document, reader, obj, helpers>>

\* load_approaches, line 72: return approaches.
load_approaches_return ==
    /\ call = "load_approaches" /\ pc = "loop"
    /\ done = Len(reader)
    /\ pc' = "returned"
    /\ UNCHANGED <<call, exc, fieldnames, rows, neos, document, reader, done, approaches, printed, obj, helpers>>

\* A caller constructs a NearEarthObject from keyword arguments.
new_NearEarthObject ==
    /\ pc = "idle"
    /\ call' = "NearEarthObject"
    /\ \E info \in NeoInfos : obj' = NearEarthObject(info)
    /\ pc' = "returned"
    /\ UNCHANGED <<exc, fieldnames, rows, neos, document, reader, done, approaches, printed, helpers>>

\* A caller constructs a CloseApproach from keyword arguments.
new_CloseApproach ==
    /\ pc = "idle"
    /\ call' = "CloseApproach"
    /\ \E info \in ApproachInfos :
          LET r == CloseApproach(info) IN
          IF r.exc # ""
          THEN pc' = "raised" /\ exc' = r.exc /\ UNCHANGED obj
          ELSE pc' = "returned" /\ exc' = "" /\ obj' = r.val
    /\ UNCHANGED <<fieldnames, rows, neos, document, reader, done, approaches, printed, helpers>>

Next ==
    \/ load_neos_open
    \/ load_neos_row
    \/ load_neos_return
    \/ load_approaches_open
    \/ load_approaches_row
    \/ load_approaches_return
    \/ new_NearEarthObject
    \/ new_CloseApproach

Spec == Init /\ [][Next]_vars

-----------------------------------------------------------------------------
(* The properties *)

\* The source rows whose failure was printed.
PrintedRows == {printed[j][1] : j \in DOMAIN printed}

\* The indices 1..total that are not in dropped, in increasing order.
KeptIndex(total, dropped) ==
    SelectSeq([i \in 1..total |-> i], LAMBDA i : i \notin dropped)

\* The source rows of load_neos that were neither skipped nor the row at
\* which an exception escaped, in source order.
NeoKept ==
    KeptIndex(Len(rows),
              PrintedRows \cup (IF pc = "raised" /\ rows # <<>> THEN {Len(rows)} ELSE {}))

\* The rows of load_approaches the loop has consumed and not skipped.
ApproachKept == KeptIndex(done, PrintedRows)

\* v is a decimal literal, so float(v) is a number.
IsNumeric(v) == v.type = "str" /\ v.val \in DOMAIN FloatLiterals

\* v is a non-empty string.
NonEmpty(v) == v.type = "str" /\ v.val # ""

\* The CSV has the four columns load_neos reads.
HeaderComplete == fieldnames = NeoColumns

\* The JSON document has both top-level keys.
DocumentComplete == {"fields", "data"} \subseteq DOMAIN document

\* A CSV row the specification calls malformed: a non-empty diameter that is
\* not numeric, or no designation.
NeoMalformed(n) ==
    \/ NonEmpty(n["diameter"]) /\ ~IsNumeric(n["diameter"])
    \/ ~NonEmpty(n["pdes"])

\* C1: load_neos tolerates partial failure.  With a complete header, no
\* exception escapes because of a row, every malformed row read so far was
\* skipped and printed, and every other row was extracted.
C1_PartialFailureTolerated ==
    (call = "load_neos" /\ HeaderComplete /\ exc # "FileNotFoundError") =>
        /\ pc # "raised"
        /\ \A i \in DOMAIN rows : NeoMalformed(rows[i]) <=> i \in PrintedRows
        /\ Len(neos) = Cardinality({i \in DOMAIN rows : ~NeoMalformed(rows[i])})

\* C2: every NearEarthObject in the collection of load_neos has a non-empty
\* designation.
C2_DesignationNeverEmpty ==
    call = "load_neos" => \A k \in DOMAIN neos : NonEmpty(neos[k].designation)

\* The value row i of the document gives column c, or Absent when the row or
\* the manifest does not reach it.
Absent == [type |-> "absent"]
Column(doc, i, c) ==
    LET f == doc["fields"]
        d == doc["data"][i]
        at == {j \in 1..Len(f) : f[j] = c /\ j <= Len(d)}
    IN  IF at = {} THEN Absent ELSE d[CHOOSE j \in at : TRUE]

\* A value of dist or v_rel that is there and is not numeric.
NonNumeric(v) == v # Absent /\ ~IsNumeric(v)

\* A cd string that matches no recognised pattern.
Unparsable(v) == NonEmpty(v) /\ v.val \notin DOMAIN DateLiterals

\* Row i of the document must be skipped according to C3.
MustSkip(doc, i) ==
    \/ NonNumeric(Column(doc, i, "dist"))
    \/ NonNumeric(Column(doc, i, "v_rel"))
    \/ Unparsable(Column(doc, i, "cd"))

\* C3: for a document with both top-level keys, load_approaches lets no
\* exception escape, skips (and prints) every consumed row whose dist or
\* v_rel is non-numeric or whose cd is unparsable, and the collection holds
\* as many entities as rows consumed minus rows skipped; on return every row
\* of the document was consumed.
C3_BadApproachRowsSkipped ==
    (call = "load_approaches" /\ DocumentComplete) =>
        /\ pc # "raised"
        /\ \A i \in 1..done : MustSkip(document, i) => i \in PrintedRows
        /\ Cardinality(PrintedRows) = Len(printed)
        /\ Len(approaches) = done - Len(printed)
        /\ \A k \in DOMAIN approaches :
              k \in DOMAIN ApproachKept /\ ~MustSkip(document, ApproachKept[k])
        /\ pc = "returned" => done = Len(document["data"])

\* C3 witness: load_approaches returned after skipping a row for a bad number
\* or a bad time and extracting another row.
C3_Witness ==
    /\ call = "load_approaches" /\ pc = "returned" /\ DocumentComplete
    /\ \E i \in 1..done : MustSkip(document, i) /\ i \in PrintedRows
    /\ Len(approaches) >= 1

\* C4: load_approaches skips every row whose designation is missing, be the
\* des column absent from the row or its value null or empty.
C4_MissingDesignationSkipped ==
    (call = "load_approaches" /\ DocumentComplete) =>
        \A i \in 1..done : ~NonEmpty(Column(document, i, "des")) => i \in PrintedRows

\* C5: for every row load_neos accepts, the diameter of the entity is NaN
\* when the diameter field is empty and the parsed number when the field is
\* numeric, zero included.
C5_DiameterParsedOrUnknown ==
    (call = "load_neos" /\ HeaderComplete) =>
        \A k \in DOMAIN neos \cap DOMAIN NeoKept :
            LET d == rows[NeoKept[k]]["diameter"] IN
            /\ ~NonEmpty(d) => neos[k].diameter = NaN
            /\ IsNumeric(d) => neos[k].diameter = FloatLiterals[d.val]

\* C6: for every row load_neos accepts, hazardous is False when the pha flag
\* is absent, empty or "N", True for any other value, and always a boolean.
C6_HazardousFromFlag ==
    (call = "load_neos" /\ HeaderComplete) =>
        \A k \in DOMAIN neos \cap DOMAIN NeoKept :
            LET pha == rows[NeoKept[k]]["pha"] IN
            /\ neos[k].hazardous \in {Bool(FALSE), Bool(TRUE)}
            /\ neos[k].hazardous = Bool(FALSE) <=> pha \in {None, Str(""), Str("N")}

\* C7: the collection of each extractor is the subsequence of the source
\* records that were not skipped, in source order, one entity per record:
\* nothing is reordered and nothing is merged.
C7_SourceOrderKept ==
    /\ (call = "load_neos" /\ "pdes" \in fieldnames) =>
          /\ Len(neos) = Len(NeoKept)
          /\ \A k \in DOMAIN neos \cap DOMAIN NeoKept :
                LET n == rows[NeoKept[k]] IN
                /\ neos[k].designation = n["pdes"]
                /\ neos[k].name = None <=> ~NonEmpty(n["name"])
    /\ (call = "load_approaches" /\ DocumentComplete) =>
          /\ Len(approaches) = Len(ApproachKept)
          /\ \A k \in DOMAIN approaches \cap DOMAIN ApproachKept :
                LET i == ApproachKept[k] IN
                /\ approaches[k]._designation = Column(document, i, "des")
                /\ IsNumeric(Column(document, i, "dist"))
                /\ approaches[k].distance = FloatLiterals[Column(document, i, "dist").val]

\* C7 witness: load_neos returned two entities for two rows that carry the
\* same designation.
C7_Witness ==
    /\ call = "load_neos" /\ pc = "returned"
    /\ Len(rows) = 2 /\ Len(neos) = 2
    /\ rows[1]["pdes"] = rows[2]["pdes"] /\ rows[1] # rows[2]

\* C8: for every NearEarthObject load_neos produced, serialize() has exactly
\* the four keys, the designation of the source row unchanged, the name empty
\* exactly when the object has none (else unchanged), the stored diameter
\* and the boolean hazard flag.
C8_SerializeFaithful ==
    (call = "load_neos" /\ HeaderComplete) =>
        \A k \in DOMAIN neos \cap DOMAIN NeoKept :
            LET out == serialize(neos[k])
                n == rows[NeoKept[k]]
            IN  /\ DOMAIN out = {"designation", "name", "diameter_km", "potentially_hazardous"}
                /\ Str(out.designation) = n["pdes"]
                /\ out.name = "" <=> neos[k].name = None
                /\ neos[k].name # None => Str(out.name) = neos[k].name
                /\ out.diameter_km = neos[k].diameter
                /\ out.potentially_hazardous = neos[k].hazardous
                /\ out.potentially_hazardous \in {Bool(FALSE), Bool(TRUE)}

\* C9: a structural error of the source is fatal: a CSV without one of the
\* four columns, or a JSON document without fields or data, never makes the
\* extractor return a collection, and a file that cannot be opened raises.
C9_StructuralErrorsFatal ==
    /\ (call = "load_neos" /\ ~HeaderComplete) => pc # "returned"
    /\ (call = "load_approaches" /\ ~DocumentComplete) => pc # "returned"
    /\ exc = "FileNotFoundError" => pc = "raised"

\* C10: the link fields are unset before the linkage step: a CloseApproach
\* just constructed, from any keyword arguments, has neo = None, a
\* NearEarthObject just constructed has no approaches, and so has every
\* entity the extractors hold; no approach refers to an object whose
\* approaches do not contain it.
C10_LinksUnsetAtConstruction ==
    /\ (call = "CloseApproach" /\ pc = "returned") => obj.neo = None
    /\ (call = "NearEarthObject" /\ pc = "returned") => obj.approaches = <<>>
    /\ \A k \in DOMAIN neos : neos[k].approaches = <<>>
    /\ \A k \in DOMAIN approaches : approaches[k].neo = None

====
